---------------------------- MODULE Spec2Model ----------------------------
(***************************************************************************)
(* Model of fmh-url (src/src/lib.rs): the conversion of a parsed URL into  *)
(* the flattened "FMH-URL" string (convert), its inverse (revert), the     *)
(* host codec (convert_host / revert_host) and the IPv6 expander           *)
(* (expand_ipv6).                                                          *)
(*                                                                         *)
(* A string is a sequence of one-character strings: <<"a", ".", "b">> is   *)
(* "a.b".  An Option<T> is a sequence of length 0 (None) or 1 (Some(x)).   *)
(***************************************************************************)
EXTENDS Integers, Sequences, FiniteSets, TLC

VARIABLES pc, url, fmh, res, host, enc, dec, ips, exps

vars == <<pc, url, fmh, res, host, enc, dec, ips, exps>>

---------------------------------------------------------------------------
(* Characters *)

Letters ==
    {"a", "b", "c", "d", "e", "f", "g", "h", "i", "j", "k", "l", "m",
     "n", "o", "p", "q", "r", "s", "t", "u", "v", "w", "x", "y", "z"}

DecChars == <<"0", "1", "2", "3", "4", "5", "6", "7", "8", "9">>

HexChars == <<"0", "1", "2", "3", "4", "5", "6", "7", "8", "9",
              "a", "b", "c", "d", "e", "f">>

Digits == {DecChars[i] : i \in 1..10}

HexDigits == {HexChars[i] : i \in 1..16}

\* The value of a decimal or hexadecimal digit character.
DigitVal(c) == (CHOOSE i \in 1..16 : HexChars[i] = c) - 1

---------------------------------------------------------------------------
(* String primitives of the Rust standard library, as the code uses them *)

\* The number of occurrences of character c in s.
RECURSIVE Count(_, _)
Count(s, c) ==
    IF s = <<>> THEN 0
    ELSE (IF Head(s) = c THEN 1 ELSE 0) + Count(Tail(s), c)

\* The index of the first occurrence of c in s, or 0.
IndexOf(s, c) ==
    IF \E i \in 1..Len(s) : s[i] = c
    THEN CHOOSE i \in 1..Len(s) : s[i] = c /\ \A j \in 1..(i - 1) : s[j] # c
    ELSE 0

\* The index of the last occurrence of c in s, or 0.
LastIndexOf(s, c) ==
    IF \E i \in 1..Len(s) : s[i] = c
    THEN CHOOSE i \in 1..Len(s) : s[i] = c /\ \A j \in (i + 1)..Len(s) : s[j] # c
    ELSE 0

\* s[from..] (1-based, inclusive); empty when from > Len(s).
Drop(s, from) == SubSeq(s, from, Len(s))

\* str::splitn(n, c): at most n items, the last one holding the remainder.
RECURSIVE splitn(_, _, _)
\* i is IndexOf(s, c).
splitn_at(s, n, c, i) ==
    IF n = 1 \/ i = 0 THEN <<s>>
    ELSE <<SubSeq(s, 1, i - 1)>> \o splitn(Drop(s, i + 1), n - 1, c)

splitn(s, n, c) == IF n = 0 THEN <<>> ELSE splitn_at(s, n, c, IndexOf(s, c))

\* str::split(c): every item; an empty string yields one empty item.
RECURSIVE split(_, _)
\* i is IndexOf(s, c).
split_at(s, c, i) ==
    IF i = 0 THEN <<s>>
    ELSE <<SubSeq(s, 1, i - 1)>> \o split(Drop(s, i + 1), c)

split(s, c) == split_at(s, c, IndexOf(s, c))

\* Iterator::rev().collect()
rev(xs) == [i \in 1..Len(xs) |-> xs[Len(xs) + 1 - i]]

\* [&str]::join(sep)
RECURSIVE join(_, _)
join(xs, sep) ==
    IF xs = <<>> THEN <<>>
    ELSE IF Len(xs) = 1 THEN xs[1]
    ELSE xs[1] \o sep \o join(Tail(xs), sep)

\* u16::to_string / u8::to_string: decimal, no leading zeros.
RECURSIVE to_string(_)
to_string(n) ==
    IF n < 10 THEN <<DecChars[n + 1]>>
    ELSE to_string(n \div 10) \o <<DecChars[(n % 10) + 1]>>

\* format!("{:x}", n): the hex digits without the zero padding.
RECURSIVE hex_unpadded(_)
hex_unpadded(n) ==
    IF n < 16 THEN <<HexChars[n + 1]>>
    ELSE hex_unpadded(n \div 16) \o <<HexChars[(n % 16) + 1]>>

\* format!("{:04x}", n) for a u16.
hex04(n) ==
    << HexChars[((n \div 4096) % 16) + 1], HexChars[((n \div 256) % 16) + 1],
       HexChars[((n \div 16) % 16) + 1],   HexChars[(n % 16) + 1] >>

\* The value of a string of decimal digits.
RECURSIVE DecValue(_)
DecValue(s) ==
    IF s = <<>> THEN 0
    ELSE DecValue(SubSeq(s, 1, Len(s) - 1)) * 10 + DigitVal(s[Len(s)])

\* One octet of Ipv4Addr::from_str: 1 to 3 decimal digits, no leading zero
\* unless the octet is "0", value at most 255.
IsOctet(s) ==
    /\ Len(s) \in 1..3
    /\ \A i \in 1..Len(s) : s[i] \in Digits
    /\ (Len(s) > 1 => s[1] # "0")
    /\ DecValue(s) <= 255

\* str::parse::<net::Ipv4Addr>(): Some(octets) for exactly four octets
\* separated by '.', None otherwise.
parse_octets(parts) ==
    IF Len(parts) = 4 /\ \A i \in 1..4 : IsOctet(parts[i])
    THEN << [i \in 1..4 |-> DecValue(parts[i])] >>
    ELSE <<>>

parse_ipv4(s) == parse_octets(split(s, "."))

\* Ipv4Addr::to_string
ipv4_to_string(o) ==
    to_string(o[1]) \o <<".">> \o to_string(o[2]) \o <<".">>
    \o to_string(o[3]) \o <<".">> \o to_string(o[4])

---------------------------------------------------------------------------
(* Hosts: url::Host is Domain(String) | Ipv4(Ipv4Addr) | Ipv6(Ipv6Addr);   *)
(* url.host() is an Option of it.  kind "None" is the absent host.         *)

NoHost == [kind |-> "None", domain |-> <<>>, addr |-> <<>>]

Domain(d) == [kind |-> "Domain", domain |-> d, addr |-> <<>>]

Ipv4(o) == [kind |-> "Ipv4", domain |-> <<>>, addr |-> o]

Ipv6(g) == [kind |-> "Ipv6", domain |-> <<>>, addr |-> g]

\* expand_ipv6: eight zero-padded groups of four hex digits.
expand_ipv6(ip) ==
    hex04(ip[1]) \o <<":">> \o hex04(ip[2]) \o <<":">> \o hex04(ip[3]) \o <<":">>
    \o hex04(ip[4]) \o <<":">> \o hex04(ip[5]) \o <<":">> \o hex04(ip[6]) \o <<":">>
    \o hex04(ip[7]) \o <<":">> \o hex04(ip[8])

\* convert_host
convert_host(h) ==
    CASE h.kind = "Domain" -> join(rev(split(h.domain, ".")), <<".">>)
      [] h.kind = "Ipv4"   -> ipv4_to_string(h.addr)
      [] h.kind = "Ipv6"   -> <<"[">> \o expand_ipv6(h.addr) \o <<"]">>

\* revert_host (it has no failing branch: the Result is always Ok)
\* ipv4 is host.parse::<net::Ipv4Addr>().
revert_host_as(s, ipv4) ==
    IF s # <<>> /\ s[1] = "[" /\ s[Len(s)] = "]" THEN s
    ELSE IF ipv4 # <<>> THEN ipv4_to_string(ipv4[1])
    ELSE join(rev(split(s, ".")), <<".">>)

revert_host(s) == revert_host_as(s, parse_ipv4(s))

---------------------------------------------------------------------------
(* The parsed URL (url::Url), as the accessors the code calls expose it:   *)
(* scheme(), host(), port(), username(), password(), path(), query(),      *)
(* fragment().  Two Urls are equal when their serializations are, which    *)
(* here is equality of the records.  Host kind "Empty" is the empty host   *)
(* of a non-special URL such as "sftp:///x": it is serialized with "//"    *)
(* and url.host() is None for it.                                          *)

EmptyHost == [kind |-> "Empty", domain |-> <<>>, addr |-> <<>>]

HTTP == <<"h", "t", "t", "p">>

HTTPS == <<"h", "t", "t", "p", "s">>

FTP == <<"f", "t", "p">>

SFTP == <<"s", "f", "t", "p">>

\* The parser's default-port table (Url::port_or_known_default falls back to it).
default_port(scheme) ==
    CASE scheme = HTTP  -> <<80>>
      [] scheme = HTTPS -> <<443>>
      [] scheme = FTP   -> <<21>>
      [] OTHER          -> <<>>

\* WHATWG "special" schemes among those the model uses (file is not modelled).
IsSpecial(scheme) == scheme \in {HTTP, HTTPS, FTP}

\* url.host()
url_host(u) == IF u.host.kind = "Empty" THEN NoHost ELSE u.host

\* url.port_or_known_default()
port_or_known_default(u) == IF u.port # <<>> THEN u.port ELSE default_port(u.scheme)

---------------------------------------------------------------------------
(* convert: lines 10-59 *)

\* The host written only when it is a domain, as url.domain() in place of
\* url.host() would do.
convert_host_part_domain_only(h) ==
    (IF h.kind = "Domain" THEN convert_host(h) ELSE <<>>) \o <<"/">>

\* lines 12-16: the encoded host, if any, then '/'
convert_host_part(h) ==
    (IF h # NoHost THEN convert_host(h) ELSE <<>>) \o <<"/">>

\* The '/' that ends the port field pushed only when there is a port.
convert_port_part_inside(port) ==
    IF port # <<>> THEN to_string(port[1]) \o <<"/">> ELSE <<>>

\* lines 23-28: the resolved port in decimal, if any, then '/'
convert_port_part(port) ==
    (IF port # <<>> THEN to_string(port[1]) ELSE <<>>) \o <<"/">>

\* lines 30-43: username[:password] unless both are missing, then '/'
convert_userinfo_part(u) ==
    (IF u.username = <<>> /\ u.password = <<>> THEN <<>>
     ELSE u.username
          \o (IF u.password # <<>> THEN <<":">> \o u.password[1] ELSE <<>>))
    \o <<"/">>

\* lines 44-56: path, then "?query" and "#fragment" when present
convert_rest_part(u) ==
    u.path
    \o (IF u.query # <<>> THEN <<"?">> \o u.query[1] ELSE <<>>)
    \o (IF u.fragment # <<>> THEN <<"#">> \o u.fragment[1] ELSE <<>>)

convert(u) ==
    convert_host_part(url_host(u)) \o u.scheme \o <<"/">>
    \o convert_port_part(port_or_known_default(u))
    \o convert_userinfo_part(u) \o convert_rest_part(u)

---------------------------------------------------------------------------
(* Url::parse, the external parser revert hands its string to (line 93).   *)
(* It follows the WHATWG URL standard's basic URL parser with no base URL, *)
(* over the characters the model uses: letters, digits and . : / @ ? # [ ] *)
(* Not modelled: the file scheme, backslashes, percent-encoding other than *)
(* in the userinfo, IDNA mapping, hexadecimal IPv4 parts, an IPv4 host of  *)
(* a single number above 2^31 - 1 and an IPv6 address with a dotted-quad   *)
(* tail.  Operators take the values they share as parameters.              *)

SchemeChars == Letters \cup Digits \cup {"+", "-", "."}

\* The index of the first character of s that is not in set, or 0.
FirstNotIn(s, set) ==
    IF \E i \in 1..Len(s) : s[i] \notin set
    THEN CHOOSE i \in 1..Len(s) : s[i] \notin set /\ \A j \in 1..(i - 1) : s[j] \in set
    ELSE 0

\* i is FirstNotIn(s, SchemeChars).
SchemeEndAt(s, i) ==
    IF i > 1 /\ s[1] \in Letters /\ s[i] = ":" THEN i ELSE 0

\* The index of the ':' that ends the scheme, or 0 when the string has no
\* scheme (which, with no base URL, is a parse error).
SchemeEnd(s) == SchemeEndAt(s, FirstNotIn(s, SchemeChars))

\* s without its leading '/' characters (the special authority states).
RECURSIVE StripSlashes(_)
StripSlashes(s) ==
    IF s # <<>> /\ s[1] = "/" THEN StripSlashes(Tail(s)) ELSE s

\* The userinfo percent-encode set, over the model's characters.
EncodeUserinfoChar(c) ==
    CASE c = "@" -> <<"%", "4", "0">>
      [] c = ":" -> <<"%", "3", "A">>
      [] c = "[" -> <<"%", "5", "B">>
      [] c = "]" -> <<"%", "5", "D">>
      [] OTHER   -> <<c>>

RECURSIVE EncodeUserinfo(_)
EncodeUserinfo(s) ==
    IF s = <<>> THEN <<>>
    ELSE EncodeUserinfoChar(s[1]) \o EncodeUserinfo(Tail(s))

\* xs without its last item, if any.
DropLast(xs) == SubSeq(xs, 1, Len(xs) - 1)

\* One step of the path state: segment seg arrives after the segments out;
\* last tells whether it is the path's last segment.
ResolveDot(out, seg, last) ==
    CASE seg = <<".", ".">> -> DropLast(out) \o (IF last THEN << <<>> >> ELSE <<>>)
      [] seg = <<".">>      -> out \o (IF last THEN << <<>> >> ELSE <<>>)
      [] OTHER              -> Append(out, seg)

\* The path's segments with "." and ".." resolved.
RECURSIVE ResolveDots(_, _)
ResolveDots(segs, out) ==
    IF segs = <<>> THEN out
    ELSE ResolveDots(Tail(segs), ResolveDot(out, Head(segs), Len(segs) = 1))

\* p is empty or starts with '/'.
NormalizePath(p) ==
    IF p = <<>> THEN <<>>
    ELSE <<"/">> \o join(ResolveDots(split(Tail(p), "/"), <<>>), <<"/">>)

AllDigits(s) == \A i \in 1..Len(s) : s[i] \in Digits

RECURSIVE OctValue(_)
OctValue(s) ==
    IF s = <<>> THEN 0
    ELSE OctValue(DropLast(s)) * 8 + DigitVal(s[Len(s)])

\* One part of the WHATWG IPv4 parser: decimal, or octal after a leading 0;
\* -1 when it is not a number.
Ipv4Part(s) ==
    IF s = <<>> \/ ~AllDigits(s) THEN -1
    ELSE IF Len(s) > 1 /\ s[1] = "0"
    THEN (IF \E i \in 1..Len(s) : DigitVal(s[i]) > 7 THEN -1 ELSE OctValue(s))
    ELSE DecValue(s)

\* parts without one trailing empty part.
TrimParts(parts) ==
    IF Len(parts) > 1 /\ parts[Len(parts)] = <<>> THEN DropLast(parts) ELSE parts

\* The '.'-separated parts of a host, without one trailing empty part.
HostParts(s) == TrimParts(split(s, "."))

LastPartIsNumber(parts) == parts[Len(parts)] # <<>> /\ AllDigits(parts[Len(parts)])

\* The "ends in a number" checker.
EndsInNumber(s) == LastPartIsNumber(HostParts(s))

\* What the last of n parts must stay below (256^(5-n); 2^31 - 1 for n = 1).
Ipv4LastLimit(n) ==
    CASE n = 4 -> 256 [] n = 3 -> 65536 [] n = 2 -> 16777216 [] OTHER -> 2147483647

Ipv4Valid(nums) ==
    /\ Len(nums) <= 4
    /\ \A i \in 1..Len(nums) : nums[i] >= 0
    /\ \A i \in 1..(Len(nums) - 1) : nums[i] <= 255
    /\ nums[Len(nums)] < Ipv4LastLimit(Len(nums))

\* The last number fills the low octets, the others the high ones.
Ipv4Octets(nums) ==
    [i \in 1..4 |->
        IF i < Len(nums) THEN nums[i]
        ELSE CASE i = 4 -> nums[Len(nums)] % 256
               [] i = 3 -> (nums[Len(nums)] \div 256) % 256
               [] i = 2 -> (nums[Len(nums)] \div 65536) % 256
               [] OTHER -> (nums[Len(nums)] \div 16777216) % 256]

ParseIpv4Nums(nums) == IF Ipv4Valid(nums) THEN <<Ipv4(Ipv4Octets(nums))>> ELSE <<>>

Ipv4Nums(parts) == [i \in 1..Len(parts) |-> Ipv4Part(parts[i])]

\* The WHATWG IPv4 parser: Some(host) or None (failure).
ParseIpv4Host(s) == ParseIpv4Nums(Ipv4Nums(HostParts(s)))

RECURSIVE HexValue(_)
HexValue(s) ==
    IF s = <<>> THEN 0
    ELSE HexValue(DropLast(s)) * 16 + DigitVal(s[Len(s)])

IsHexGroup(s) == Len(s) \in 1..4 /\ \A i \in 1..Len(s) : s[i] \in HexDigits

\* The ':'-separated groups of s; none for the empty string.
Groups(s) == IF s = <<>> THEN <<>> ELSE split(s, ":")

\* The index of the first "::" in s, or 0.
DoubleColon(s) ==
    IF \E i \in 1..(Len(s) - 1) : s[i] = ":" /\ s[i + 1] = ":"
    THEN CHOOSE i \in 1..(Len(s) - 1) :
             /\ s[i] = ":" /\ s[i + 1] = ":"
             /\ \A j \in 1..(i - 1) : ~(s[j] = ":" /\ s[j + 1] = ":")
    ELSE 0

\* The groups l before and r after a "::", with the zero groups between.
Ipv6Compressed(l, r) ==
    IF /\ \A k \in 1..Len(l) : IsHexGroup(l[k])
       /\ \A k \in 1..Len(r) : IsHexGroup(r[k])
       /\ Len(l) + Len(r) <= 7
    THEN << Ipv6([k \in 1..8 |->
                   IF k <= Len(l) THEN HexValue(l[k])
                   ELSE IF k > 8 - Len(r) THEN HexValue(r[k - (8 - Len(r))])
                   ELSE 0]) >>
    ELSE <<>>

Ipv6Full(g) ==
    IF Len(g) = 8 /\ \A k \in 1..8 : IsHexGroup(g[k])
    THEN << Ipv6([k \in 1..8 |-> HexValue(g[k])]) >>
    ELSE <<>>

\* dc is DoubleColon(s).
ParseIpv6At(s, dc) ==
    IF dc = 0 THEN Ipv6Full(Groups(s))
    ELSE Ipv6Compressed(Groups(SubSeq(s, 1, dc - 1)), Groups(Drop(s, dc + 2)))

\* The IPv6 parser on the text between the brackets: Some(host) or None.
ParseIpv6Host(s) == ParseIpv6At(s, DoubleColon(s))

\* The host parser: Some(host) or None (failure).  A non-special URL's host
\* is opaque, which the parser hands out as a Domain; a special URL's host
\* that ends in a number is an IPv4 address or a failure.
ParseHost(s, special) ==
    IF s = <<>> THEN (IF special THEN <<>> ELSE <<EmptyHost>>)
    ELSE IF s[1] = "["
    THEN (IF s[Len(s)] = "]" THEN ParseIpv6Host(SubSeq(s, 2, Len(s) - 1)) ELSE <<>>)
    ELSE IF \E i \in 1..Len(s) : s[i] \in {"[", "]"} THEN <<>>
    ELSE IF special /\ EndsInNumber(s) THEN ParseIpv4Host(s)
    ELSE <<Domain(s)>>

\* v is the port's value and dflt the scheme's default port.
PortOf(v, dflt) ==
    IF v > 65535 THEN [ok |-> FALSE, port |-> <<>>]
    ELSE IF <<v>> = dflt THEN [ok |-> TRUE, port |-> <<>>]
    ELSE [ok |-> TRUE, port |-> <<v>>]

\* The port parser: [ok, port]; an empty port and the scheme's default port
\* are both None.
ParsePort(s, scheme) ==
    IF ~AllDigits(s) THEN [ok |-> FALSE, port |-> <<>>]
    ELSE IF s = <<>> THEN [ok |-> TRUE, port |-> <<>>]
    ELSE PortOf(DecValue(s), default_port(scheme))

\* hp starts with '[' and rb is the index of its first ']'.
SplitBracketed(hp, rb) ==
    IF rb < Len(hp) /\ hp[rb + 1] = ":"
    THEN [host |-> SubSeq(hp, 1, rb), colon |-> TRUE, port |-> Drop(hp, rb + 2)]
    ELSE [host |-> hp, colon |-> FALSE, port |-> <<>>]

\* ci is the index of the first ':' of hp, or 0.
SplitPlain(hp, ci) ==
    IF ci # 0
    THEN [host |-> SubSeq(hp, 1, ci - 1), colon |-> TRUE, port |-> Drop(hp, ci + 1)]
    ELSE [host |-> hp, colon |-> FALSE, port |-> <<>>]

\* Host and port of an authority without its userinfo: the host runs to the
\* first ':' outside brackets.
SplitHostPort(hp) ==
    IF hp # <<>> /\ hp[1] = "[" /\ IndexOf(hp, "]") # 0
    THEN SplitBracketed(hp, IndexOf(hp, "]"))
    ELSE SplitPlain(hp, IndexOf(hp, ":"))

NoAuthority ==
    [ok |-> TRUE, username |-> <<>>, password |-> <<>>, host |-> NoHost, port |-> <<>>]

BadAuthority == [NoAuthority EXCEPT !.ok = FALSE]

\* Some(encoded s), or None for the empty string.
PasswordOf(s) == IF s = <<>> THEN <<>> ELSE <<EncodeUserinfo(s)>>

\* userinfo is what precedes the last '@' and ci the index of its first ':'.
Credentials(userinfo, ci) ==
    IF ci = 0 THEN [username |-> EncodeUserinfo(userinfo), password |-> <<>>]
    ELSE [username |-> EncodeUserinfo(SubSeq(userinfo, 1, ci - 1)),
          password |-> PasswordOf(Drop(userinfo, ci + 1))]

\* hp is the split host and port, h and p what they parse to, c the credentials.
AuthorityOf(hp, h, p, c) ==
    IF (hp.colon /\ hp.host = <<>>) \/ h = <<>> \/ ~p.ok THEN BadAuthority
    ELSE [ok |-> TRUE, username |-> c.username, password |-> c.password,
          host |-> h[1], port |-> p.port]

HostPortOf(hp, scheme, c) ==
    AuthorityOf(hp, ParseHost(hp.host, IsSpecial(scheme)), ParsePort(hp.port, scheme), c)

\* at is the index of the last '@' of auth, or 0.
AuthorityAt(auth, at, scheme) ==
    IF at # 0 /\ at = Len(auth) THEN BadAuthority
    ELSE HostPortOf(SplitHostPort(Drop(auth, at + 1)), scheme,
                    Credentials(SubSeq(auth, 1, at - 1),
                                IndexOf(SubSeq(auth, 1, at - 1), ":")))

\* The authority, host and port states: [userinfo "@"] host [":" port].
ParseAuthority(auth, scheme) == AuthorityAt(auth, LastIndexOf(auth, "@"), scheme)

\* s up to (not including) index i, or all of s when i = 0.
UpTo(s, i) == IF i = 0 THEN s ELSE SubSeq(s, 1, i - 1)

\* Some(s from index i + 1), or None when i = 0.
From(s, i) == IF i = 0 THEN <<>> ELSE <<Drop(s, i + 1)>>

\* s up to (not including) the first occurrence of c, or all of s.
Before(s, c) == UpTo(s, IndexOf(s, c))

\* Some(what follows the first c in s), or None.
After(s, c) == From(s, IndexOf(s, c))

NoUrl ==
    [scheme |-> <<>>, host |-> NoHost, port |-> <<>>, username |-> <<>>,
     password |-> <<>>, path |-> <<>>, query |-> <<>>, fragment |-> <<>>]

ParseError == [ok |-> FALSE, url |-> NoUrl]

\* The path of a special URL is never empty.
PathOfUrl(rawPath, special) ==
    IF rawPath # <<>> /\ rawPath[1] = "/" THEN NormalizePath(rawPath)
    ELSE IF special THEN <<"/">>
    ELSE rawPath

\* a is the parsed authority.
UrlOf(scheme, a, rawPath, query, fragment) ==
    IF ~a.ok THEN ParseError
    ELSE [ok |-> TRUE,
          url |-> [scheme |-> scheme, host |-> a.host, port |-> a.port,
                   username |-> a.username, password |-> a.password,
                   path |-> PathOfUrl(rawPath, IsSpecial(scheme)),
                   query |-> query, fragment |-> fragment]]

\* s follows the slashes that open the authority: the authority runs to the
\* next '/', the path is the rest.
ParseWithAuthority(scheme, s, query, fragment) ==
    UrlOf(scheme, ParseAuthority(Before(s, "/"), scheme),
          Drop(s, Len(Before(s, "/")) + 1), query, fragment)

\* body is what follows "scheme:" up to the query and fragment.  A special
\* URL has an authority after any number of slashes, a non-special one only
\* after "//"; otherwise body is the path.
ParseBody(scheme, body, query, fragment) ==
    IF IsSpecial(scheme)
    THEN ParseWithAuthority(scheme, StripSlashes(body), query, fragment)
    ELSE IF Len(body) >= 2 /\ body[1] = "/" /\ body[2] = "/"
    THEN ParseWithAuthority(scheme, Drop(body, 3), query, fragment)
    ELSE UrlOf(scheme, NoAuthority, body, query, fragment)

\* beforeFragment is what follows "scheme:" up to the fragment.
ParseBeforeFragment(scheme, beforeFragment, fragment) ==
    ParseBody(scheme, Before(beforeFragment, "?"), After(beforeFragment, "?"), fragment)

\* rest is what follows "scheme:".
ParseAfterScheme(scheme, rest) ==
    ParseBeforeFragment(scheme, Before(rest, "#"), After(rest, "#"))

\* se is SchemeEnd(s).
ParseAt(s, se) ==
    IF se = 0 THEN ParseError
    ELSE ParseAfterScheme(SubSeq(s, 1, se - 1), Drop(s, se + 1))

\* Url::parse(s): [ok |-> TRUE, url |-> the Url] or [ok |-> FALSE] (a ParseError).
Url_parse(s) == ParseAt(s, SchemeEnd(s))

---------------------------------------------------------------------------
(* revert: lines 61-94 *)

\* "//" written only when the host is non-empty.
revert_build_host_only(parts) ==
    parts[2] \o <<":">>
    \o (IF parts[1] # <<>> THEN <<"/", "/">> ELSE <<>>)
    \o (IF parts[4] # <<>> THEN parts[4] \o <<"@">> ELSE <<>>)
    \o revert_host(parts[1])
    \o (IF parts[3] # <<>> THEN <<":">> \o parts[3] ELSE <<>>)
    \o parts[5]

\* lines 73-89: the URL string rebuilt from the five parts
\* <<host, scheme, port, username_password, path>>.
revert_build(parts) ==
    parts[2] \o <<":">>
    \o (IF parts[1] # <<>> \/ parts[3] # <<>> \/ parts[4] # <<>>
        THEN <<"/", "/">> ELSE <<>>)
    \o (IF parts[4] # <<>> THEN parts[4] \o <<"@">> ELSE <<>>)
    \o revert_host(parts[1])
    \o (IF parts[3] # <<>> THEN <<":">> \o parts[3] ELSE <<>>)
    \o parts[5]

NoResult == [kind |-> "None", input |-> <<>>, built |-> <<>>, url |-> NoUrl]

\* line 93: Ok(Url::parse(&url).expect(..)): the Url, or the panic of expect.
revert_parse(built, parsed) ==
    IF parsed.ok
    THEN [kind |-> "Ok", input |-> <<>>, built |-> built, url |-> parsed.url]
    ELSE [kind |-> "Panic", input |-> <<>>, built |-> built, url |-> NoUrl]

revert_rebuilt(built) == revert_parse(built, Url_parse(built))

\* The error carrying the first part in place of the whole input.
revert_split_first_part(f, parts) ==
    IF Len(parts) # 5
    THEN [kind |-> "InvalidFmhUrl", input |-> parts[1], built |-> <<>>, url |-> NoUrl]
    ELSE revert_rebuilt(revert_build(parts))

\* lines 64-66: fewer than five parts is Err(InvalidFmhUrl(input)).
revert_split(f, parts) ==
    IF Len(parts) # 5
    THEN [kind |-> "InvalidFmhUrl", input |-> f, built |-> <<>>, url |-> NoUrl]
    ELSE revert_rebuilt(revert_build(parts))

\* The outcome of revert: Err(InvalidFmhUrl(input)), Ok(url), or the panic of
\* line 93's expect when the rebuilt string does not parse.  built is the
\* string handed to Url::parse, <<>> when none was built.
revert(f) == revert_split(f, splitn(f, 5, "/"))

---------------------------------------------------------------------------
(* Inputs *)

\* Bounds of the model.
MaxLabels == 2

MaxPathDepth == 2

MaxRawLen == 5

MaxDomainLen == 7

\* The strings over alphabet of length at most n.
RECURSIVE StringsUpTo(_, _)
StringsUpTo(alphabet, n) ==
    IF n = 0 THEN {<<>>}
    ELSE LET shorter == StringsUpTo(alphabet, n - 1)
         IN shorter \cup {Append(s, c) : s \in shorter, c \in alphabet}

\* Domains of 1..MaxLabels labels "a" or "b", and one whose labels are all
\* numbers (the opaque host of a non-special URL may be one).
LabelSeqs == StringsUpTo({<<"a">>, <<"b">>}, MaxLabels) \ {<<>>}

NumericDomain == <<"1", ".", "1", ".", "1", ".", "2">>

UrlDomains == {join(ls, <<".">>) : ls \in LabelSeqs} \cup {NumericDomain}

LoopbackV6 == <<0, 0, 0, 0, 0, 0, 0, 1>>

UrlHosts ==
    {NoHost} \cup {Domain(d) : d \in UrlDomains}
    \cup {Ipv4(<<127, 0, 0, 1>>), Ipv6(LoopbackV6)}

\* "/a/a.../a" with d segments; "/" for d = 0.
RECURSIVE PathOf(_)
PathOf(d) == IF d <= 1 THEN <<"/">> \o (IF d = 1 THEN <<"a">> ELSE <<>>)
             ELSE PathOf(d - 1) \o <<"/", "a">>

\* Hierarchical paths, the empty path, and two opaque paths.
UrlPaths ==
    {PathOf(d) : d \in 0..MaxPathDepth} \cup {<<>>, <<"a">>, <<"a", "/", "b">>}

StartsWith(s, c) == s # <<>> /\ s[1] = c

\* What the parser guarantees of a Url it returns: a special URL has a host
\* and a path starting with '/', and a host ending in a number is an IPv4
\* address; a non-special URL's host is never IPv4; a URL without host has
\* no port and no credentials; with a host the path is empty or starts with
\* '/'; the port is never the scheme's default.
IsParsedUrl(u) ==
    /\ IsSpecial(u.scheme) =>
          /\ u.host # NoHost
          /\ StartsWith(u.path, "/")
          /\ (u.host.kind = "Domain" => ~EndsInNumber(u.host.domain))
    /\ ~IsSpecial(u.scheme) => u.host.kind # "Ipv4"
    /\ u.host = NoHost =>
          /\ u.port = <<>> /\ u.username = <<>> /\ u.password = <<>>
          /\ ~(Len(u.path) >= 2 /\ u.path[1] = "/" /\ u.path[2] = "/")
    /\ u.host # NoHost => (u.path = <<>> \/ StartsWith(u.path, "/"))
    /\ (u.port = <<>> \/ u.port # default_port(u.scheme))

UrlInputs ==
    { u \in [scheme : {HTTP, SFTP}, host : UrlHosts, port : {<<>>, <<80>>, <<8080>>},
             username : {<<>>, <<"a">>}, password : {<<>>, << <<"b">> >>},
             path : UrlPaths, query : {<<>>, << <<"c">> >>},
             fragment : {<<>>, << <<"d">> >>}] : IsParsedUrl(u) }

\* Inputs of revert: every string of at most MaxRawLen characters over a
\* small alphabet, and strings of five segments drawn from samples.
RawAlphabet == {"/", "a", "1", "."}

HostSegs ==
    { <<>>, <<"a">>, <<"b", ".", "a">>, <<"2", ".", "1", ".", "1", ".", "1">>,
      <<"[", "1", "]">>, <<"[">> \o expand_ipv6(LoopbackV6) \o <<"]">> }

SchemeSegs == { <<>>, SFTP, HTTP }

PortSegs == { <<>>, <<"2", "1">>, <<"a">> }

UserinfoSegs == { <<>>, <<"a">>, <<"a", ":", "b">> }

RestSegs == { <<>>, <<"a">>, <<"/", "a">>, <<"/", "/", "a">>, <<"/", "a", "?", "c">> }

FmhInputs ==
    StringsUpTo(RawAlphabet, MaxRawLen)
    \cup { join(<<h, s, p, u, r>>, <<"/">>) :
             h \in HostSegs, s \in SchemeSegs, p \in PortSegs,
             u \in UserinfoSegs, r \in RestSegs }

\* Inputs of the host codec: every non-empty domain of at most MaxDomainLen
\* characters over a, 1, 2 and '.', and sample addresses.
DomainAlphabet == {"a", "1", "2", "."}

OctetSamples == {0, 1, 255}

SegmentSamples == {0, 1, 10, 255, 256, 4096, 43981, 65535}

\* The address with segment p set to v and every other segment to b.
OneSegment(b, p, v) == [i \in 1..8 |-> IF i = p THEN v ELSE b]

Ipv6Inputs ==
    { OneSegment(b, p, v) : b \in {0, 65535}, p \in 1..8, v \in SegmentSamples }

HostInputs ==
    {Domain(d) : d \in StringsUpTo(DomainAlphabet, MaxDomainLen) \ {<<>>}}
    \cup {Ipv4(<<a, b, c, d>>) : a \in OctetSamples, b \in OctetSamples,
                                 c \in OctetSamples, d \in OctetSamples}
    \cup {Ipv6(g) : g \in Ipv6Inputs}

---------------------------------------------------------------------------
(* The state machine.  pc is the position of the one call being followed:  *)
(* a Url goes through convert and then revert; a string goes through       *)
(* revert; a host goes through convert_host and then revert_host; a pair   *)
(* of addresses goes through expand_ipv6.                                  *)

Init ==
    /\ pc = "parsed"
    /\ url \in UrlInputs
    /\ fmh = <<>> /\ res = NoResult
    /\ host = NoHost /\ enc = <<>> /\ dec = <<>> /\ ips = <<>> /\ exps = <<>>

InitRevert ==
    /\ pc = "converted"
    /\ fmh \in FmhInputs
    /\ url = NoUrl /\ res = NoResult
    /\ host = NoHost /\ enc = <<>> /\ dec = <<>> /\ ips = <<>> /\ exps = <<>>

InitHost ==
    /\ pc = "host"
    /\ host \in HostInputs
    /\ url = NoUrl /\ fmh = <<>> /\ res = NoResult
    /\ enc = <<>> /\ dec = <<>> /\ ips = <<>> /\ exps = <<>>

InitIpv6 ==
    /\ pc = "ipv6"
    /\ ips \in Ipv6Inputs \X Ipv6Inputs
    /\ url = NoUrl /\ fmh = <<>> /\ res = NoResult
    /\ host = NoHost /\ enc = <<>> /\ dec = <<>> /\ exps = <<>>

Convert ==
    /\ pc = "parsed"
    /\ fmh' = convert(url)
    /\ pc' = "converted"
    /\ UNCHANGED <<url, res, host, enc, dec, ips, exps>>

Revert ==
    /\ pc = "converted"
    /\ res' = revert(fmh)
    /\ pc' = "reverted"
    /\ UNCHANGED <<url, fmh, host, enc, dec, ips, exps>>

ConvertHost ==
    /\ pc = "host"
    /\ enc' = convert_host(host)
    /\ pc' = "encoded"
    /\ UNCHANGED <<url, fmh, res, host, dec, ips, exps>>

RevertHost ==
    /\ pc = "encoded"
    /\ dec' = revert_host(enc)
    /\ pc' = "decoded"
    /\ UNCHANGED <<url, fmh, res, host, enc, ips, exps>>

ExpandIpv6 ==
    /\ pc = "ipv6"
    /\ exps' = <<expand_ipv6(ips[1]), expand_ipv6(ips[2])>>
    /\ pc' = "expanded"
    /\ UNCHANGED <<url, fmh, res, host, enc, dec, ips>>

Next == Convert \/ Revert

NextRevert == Revert

NextHost == ConvertHost \/ RevertHost

NextIpv6 == ExpandIpv6

Spec == Init /\ [][Next]_vars

SpecRevert == InitRevert /\ [][NextRevert]_vars

SpecHost == InitHost /\ [][NextHost]_vars

SpecIpv6 == InitIpv6 /\ [][NextIpv6]_vars

---------------------------------------------------------------------------
(* Properties.  The segments of an FMH-URL are stated from the positions   *)
(* of its first four '/' characters, independently of splitn.              *)

\* The index of the k-th occurrence of c in s (there are at least k).
NthIndex(s, c, k) ==
    CHOOSE i \in 1..Len(s) : s[i] = c /\ Count(SubSeq(s, 1, i), c) = k

\* Segment k of s, k in 1..4: what lies between the (k-1)-th and the k-th '/'.
Segment(s, k) ==
    SubSeq(s, IF k = 1 THEN 1 ELSE NthIndex(s, "/", k - 1) + 1, NthIndex(s, "/", k) - 1)

\* The fifth segment: everything after the fourth '/'.
FifthSegment(s) == Drop(s, NthIndex(s, "/", 4) + 1)

\* The string form of a host: the domain, the dotted quad, or the bracketed
\* expanded IPv6 address.
HostString(h) ==
    CASE h.kind = "Domain" -> h.domain
      [] h.kind = "Ipv4"   -> ipv4_to_string(h.addr)
      [] h.kind = "Ipv6"   -> <<"[">> \o expand_ipv6(h.addr) \o <<"]">>
      [] OTHER             -> <<>>

\* C1: round trip.  Once convert and then revert have run on a parsed URL,
\* revert has returned Ok with a URL equal to the one converted.
C1_RoundTrip ==
    pc = "reverted" => (res.kind = "Ok" /\ res.url = url)

\* C2: an input with fewer than four '/' makes revert return
\* Err(InvalidFmhUrl(input)) with the input unchanged, and no URL string is
\* built or parsed.
C2_MalformedRejected ==
    (pc = "reverted" /\ Count(fmh, "/") < 4) =>
        res = [kind |-> "InvalidFmhUrl", input |-> fmh, built |-> <<>>, url |-> NoUrl]

C2_Witness ==
    /\ pc = "reverted" /\ Count(fmh, "/") = 3 /\ Len(fmh) > 3
    /\ res.kind = "InvalidFmhUrl"

\* C3: on every input with at least four '/', revert returns a URL: it
\* neither returns an error nor panics.
C3_AlwaysReturnsUrl ==
    (pc = "reverted" /\ Count(fmh, "/") >= 4) => res.kind = "Ok"

\* C4: the output of convert has at least four '/'; cut at its first four
\* '/' it has exactly the five segments encoded host (or empty), scheme,
\* resolved port in decimal (or empty), userinfo (or empty) and
\* path?query#fragment; none of the first four holds a '/', and the bounded
\* split of revert yields the same five.
C4_FiveSegments ==
    pc \in {"converted", "reverted"} =>
        /\ Count(fmh, "/") >= 4
        /\ Segment(fmh, 1) = (IF url_host(url) = NoHost THEN <<>>
                              ELSE convert_host(url_host(url)))
        /\ Segment(fmh, 2) = url.scheme
        /\ Segment(fmh, 3) = (IF url.port # <<>> THEN to_string(url.port[1])
                              ELSE IF default_port(url.scheme) # <<>>
                              THEN to_string(default_port(url.scheme)[1])
                              ELSE <<>>)
        /\ Segment(fmh, 4) = (IF url.username = <<>> /\ url.password = <<>> THEN <<>>
                              ELSE IF url.password = <<>> THEN url.username
                              ELSE url.username \o <<":">> \o url.password[1])
        /\ FifthSegment(fmh) =
               url.path
               \o (IF url.query = <<>> THEN <<>> ELSE <<"?">> \o url.query[1])
               \o (IF url.fragment = <<>> THEN <<>> ELSE <<"#">> \o url.fragment[1])
        /\ \A k \in 1..4 : Count(Segment(fmh, k), "/") = 0
        /\ splitn(fmh, 5, "/") =
               << Segment(fmh, 1), Segment(fmh, 2), Segment(fmh, 3),
                  Segment(fmh, 4), FifthSegment(fmh) >>

C4_Witness ==
    /\ pc = "converted"
    /\ url.host.kind = "Domain" /\ url.port # <<>> /\ url.password # <<>>
    /\ Count(url.path, "/") >= 2 /\ url.query # <<>>
    /\ Count(fmh, "/") >= 6

\* C5: the first segment of convert's output is empty exactly when the URL
\* has no host.
C5_HostSegmentEmptyIffNoHost ==
    pc \in {"converted", "reverted"} =>
        ((Segment(fmh, 1) = <<>>) <=> (url_host(url) = NoHost))

C5_Witness ==
    /\ pc = "converted"
    /\ url_host(url) = NoHost /\ url.path # <<>>
    /\ fmh[1] = "/"

\* C6: the fourth segment of convert's output is empty exactly when the
\* username is empty and the password absent, and is otherwise the username
\* followed by ':' and the password only when there is a password; and a
\* URL with neither (a bare '@' parses to one) reverts to itself.
C6_UserinfoCollapse ==
    /\ pc \in {"converted", "reverted"} =>
          /\ (Segment(fmh, 4) = <<>>) <=> (url.username = <<>> /\ url.password = <<>>)
          /\ Segment(fmh, 4) # <<>> =>
                Segment(fmh, 4) =
                    url.username
                    \o (IF url.password = <<>> THEN <<>> ELSE <<":">> \o url.password[1])
    /\ (pc = "reverted" /\ url.username = <<>> /\ url.password = <<>>) =>
          (res.kind = "Ok" /\ res.url = url)

\* C7: for an input with at least four '/', the string revert rebuilds is
\* "scheme:", then "//" exactly when host, port or userinfo is non-empty,
\* then the userinfo and '@' if the userinfo is non-empty, then the decoded
\* host, then ':' and the port if the port is non-empty, then the fifth
\* segment.
C7_AuthorityRule ==
    (pc = "reverted" /\ Count(fmh, "/") >= 4) =>
        res.built =
            Segment(fmh, 2) \o <<":">>
            \o (IF Segment(fmh, 1) = <<>> /\ Segment(fmh, 3) = <<>>
                   /\ Segment(fmh, 4) = <<>>
                THEN <<>> ELSE <<"/", "/">>)
            \o (IF Segment(fmh, 4) = <<>> THEN <<>> ELSE Segment(fmh, 4) \o <<"@">>)
            \o revert_host(Segment(fmh, 1))
            \o (IF Segment(fmh, 3) = <<>> THEN <<>> ELSE <<":">> \o Segment(fmh, 3))
            \o FifthSegment(fmh)

C7_Witness ==
    /\ pc = "reverted" /\ Count(fmh, "/") >= 4
    /\ Segment(fmh, 1) = <<>> /\ Segment(fmh, 3) = <<>> /\ Segment(fmh, 4) # <<>>
    /\ Segment(fmh, 2) = SFTP
    /\ SubSeq(res.built, 1, 7) = SFTP \o <<":", "/", "/">>

\* The expansion e of address ip: 39 characters, ':' at every fifth place
\* and lowercase hex digits elsewhere, group i being the value of segment i.
IsExpansionOf(e, ip) ==
    /\ Len(e) = 39
    /\ \A i \in 1..39 : IF i % 5 = 0 THEN e[i] = ":" ELSE e[i] \in HexDigits
    /\ \A i \in 1..8 : HexValue(SubSeq(e, 5 * i - 4, 5 * i - 1)) = ip[i]
    /\ \A i \in 1..38 : ~(e[i] = ":" /\ e[i + 1] = ":")

\* C8: expand_ipv6 yields eight groups of exactly four lowercase hex digits
\* separated by single ':', group i being segment i zero-padded, and two
\* different addresses never expand to the same string.
C8_Ipv6Expansion ==
    pc = "expanded" =>
        /\ IsExpansionOf(exps[1], ips[1])
        /\ IsExpansionOf(exps[2], ips[2])
        /\ (ips[1] # ips[2] => exps[1] # exps[2])

C8_Witness ==
    /\ pc = "expanded"
    /\ ips[1] = LoopbackV6 /\ ips[2] # ips[1]
    /\ SubSeq(exps[1], 36, 39) = <<"0", "0", "0", "1">>

\* C9: decoding the encoded host gives back the host: the domain with its
\* labels in their original order, the same dotted quad, the bracketed
\* expanded form of the same IPv6 address.
C9_HostCodecInverse ==
    pc = "decoded" => dec = HostString(host)

\* C10: when revert returns a URL, the URL has a host exactly when the host
\* segment is non-empty; with host, port and userinfo segments all empty it
\* has no host, no port and no userinfo.
C10_HostPresencePreserved ==
    (pc = "reverted" /\ res.kind = "Ok") =>
        /\ (url_host(res.url) # NoHost) <=> (Segment(fmh, 1) # <<>>)
        /\ (Segment(fmh, 1) = <<>> /\ Segment(fmh, 3) = <<>> /\ Segment(fmh, 4) = <<>>) =>
              /\ res.url.host = NoHost /\ res.url.port = <<>>
              /\ res.url.username = <<>> /\ res.url.password = <<>>

===========================================================================
